---- MODULE Spec2Model ----
(***************************************************************************)
(* search::fef::PhraseSplitterQueryEnv: a query environment that wraps     *)
(* another one and presents every phrase term on one field as a run of     *)
(* single terms.  The class declaration (the renumbering table, the        *)
(* copy instructions, getNumTerms and getTerm) is                          *)
(* searchlib/fef/phrase_splitter_query_env.h; the constructor,             *)
(* considerTerm and the per-document match-data update are described by    *)
(* spec.md sections 4.1 and 4.3.                                           *)
(***************************************************************************)
EXTENDS Integers, Sequences, FiniteSets

VARIABLES
    queryEnv,      \* _queryEnv: the wrapped environment, a sequence of terms
    fieldId,       \* the constructor's fieldId argument
    pc,            \* "new" | "constructed" | "bound"
    _terms,        \* std::vector<SimpleTermData>: the splitted terms
    _copyInfo,     \* std::vector<HowToCopy>
    _termIdxMap,   \* std::vector<TermIdx>: renumbering of terms
    _maxHandle,    \* the largest among original term field handles
    _skipHandles,  \* how many handles to skip
    matchData,     \* the bound per-document match data, keyed by handle
    lastCall       \* the last call made on the instance, with what it returned

vars == <<queryEnv, fieldId, pc, _terms, _copyInfo, _termIdxMap,
          _maxHandle, _skipHandles, matchData, lastCall>>

built == <<_terms, _copyInfo, _termIdxMap, _maxHandle, _skipHandles>>

-----------------------------------------------------------------------------
(* Bounds of the model.                                                    *)

MaxTerms == 2          \* terms in the wrapped environment
MaxPhraseLength == 2   \* sub-terms of one term
MaxOccurrences == 2    \* occurrences of a term in one document

-----------------------------------------------------------------------------
(* TermFieldHandle is an unsigned 32-bit integer.  A handle is written     *)
(* <<hi, lo>>, two 16-bit words standing for hi * 2^16 + lo, so that the   *)
(* whole range up to 2^32 - 1 can be enumerated; arithmetic on handles     *)
(* wraps at 2^32 as it does on the C++ type.                               *)

HandleBits == 32

HandleWord == 2 ^ (HandleBits \div 2)

Handle(n) == <<n \div HandleWord, n % HandleWord>>

HandleLimit == <<HandleWord - 1, HandleWord - 1>>

HandleLess(a, b) == a[1] < b[1] \/ (a[1] = b[1] /\ a[2] < b[2])

HandleMax(a, b) == IF HandleLess(a, b) THEN b ELSE a

\* h + n in TermFieldHandle arithmetic, for 0 <= n < 2^16
HandleAdd(h, n) ==
    LET lo == h[2] + n
    IN  <<(h[1] + (lo \div HandleWord)) % HandleWord, lo % HandleWord>>

\* TRUE iff the mathematical sum h + n does not fit the 32 bits
HandleAddWraps(h, n) ==
    h[1] + ((h[2] + n) \div HandleWord) >= HandleWord

-----------------------------------------------------------------------------
(* The wrapped environment and the constructor's inputs.                   *)

Fields == {3, 5}

TermFieldSets == {{3}, {5}, {3, 5}}

HandleInputs == {Handle(1), HandleLimit}

\* ITermData as the splitter reads it: phrase length, fields, handle
TermInputs ==
    [phraseLength : 0..MaxPhraseLength, fields : TermFieldSets, handle : HandleInputs]

\* the terms of the environments the match-data update is exercised with
BoundTermInputs ==
    [phraseLength : 1..MaxPhraseLength, fields : {{3}, {5}}, handle : HandleInputs]

\* the terms of the environments every call is exercised with at length
ServingTermInputs ==
    [phraseLength : {1, MaxPhraseLength}, fields : {{3}, {5}}, handle : {Handle(1)}]

EnvsOver(terms) == UNION {[1..n -> terms] : n \in 0..MaxTerms}

IdxInputs == 0..(MaxTerms * MaxPhraseLength + 1)

Nullptr == [kind |-> "nullptr"]

Dangling == [kind |-> "dangling"]

TermPtr(owner, i, t) == [kind |-> "term", owner |-> owner, idx |-> i, term |-> t]

\* IQueryEnvironment::getNumTerms of the wrapped environment
queryEnv_getNumTerms == Len(queryEnv)

\* IQueryEnvironment::getTerm of the wrapped environment
queryEnv_getTerm(i) ==
    IF i < Len(queryEnv) THEN TermPtr("queryEnv", i, queryEnv[i + 1]) ELSE Nullptr

-----------------------------------------------------------------------------
(* Construction (spec.md 4.1).                                             *)

RECURSIVE ScanMaxHandle(_, _)
\* the largest handle among the first n original terms, 0 when there is none
ScanMaxHandle(env, n) ==
    IF n = 0 THEN Handle(0)
    ELSE HandleMax(ScanMaxHandle(env, n - 1), env[n].handle)

\* case 2 of the algorithm: a phrase that references the target field
IsSplit(term, fid) == term.phraseLength # 1 /\ fid \in term.fields

\* the synthesized single term of one sub-term, its handle not yet assigned
Prototype(term, fid) == [phraseLength |-> 1, fields |-> {fid}, handle |-> Handle(0)]

\* considerTerm: st = [terms, termIdxMap, phraseTerms]
considerTerm(st, termIdx, term, fid) ==
    IF IsSplit(term, fid)
    THEN LET n == term.phraseLength
             base == Len(st.terms)
         IN  [terms |-> st.terms \o [k \in 1..n |-> Prototype(term, fid)],
              termIdxMap |-> st.termIdxMap \o
                  [k \in 1..n |-> [idx |-> base + k - 1, splitted |-> TRUE]],
              phraseTerms |-> Append(st.phraseTerms,
                  [term |-> term, idx |-> base, orig_handle |-> term.handle])]
    ELSE [st EXCEPT !.termIdxMap = Append(@, [idx |-> termIdx, splitted |-> FALSE])]

RECURSIVE ScanTerms(_, _, _)
\* the constructor's loop over the wrapped environment's terms 0..n-1
ScanTerms(env, n, fid) ==
    IF n = 0 THEN [terms |-> <<>>, termIdxMap |-> <<>>, phraseTerms |-> <<>>]
    ELSE considerTerm(ScanTerms(env, n - 1, fid), n - 1, env[n], fid)

\* the handle given to the j-th synthesized term in creation order
AllocHandle(first, j) == HandleAdd(first, j)

RECURSIVE AssignHandles(_, _, _)
\* handles and copy instructions of the first n phrase terms:
\* st = [terms, copyInfo], both vectors in creation order
AssignHandles(scan, n, first) ==
    IF n = 0 THEN [terms |-> scan.terms, copyInfo |-> <<>>]
    ELSE LET prev == AssignHandles(scan, n - 1, first)
             pt == scan.phraseTerms[n]
             len == pt.term.phraseLength
             done == Len(prev.copyInfo)
         IN  [terms |-> [i \in 1..Len(prev.terms) |->
                            IF i - 1 >= pt.idx /\ i - 1 < pt.idx + len
                            THEN [prev.terms[i] EXCEPT
                                     !.handle = AllocHandle(first, done + (i - 1 - pt.idx))]
                            ELSE prev.terms[i]],
              copyInfo |-> prev.copyInfo \o
                  [k \in 1..len |->
                      [orig_handle |-> pt.orig_handle,
                       split_handle |-> AllocHandle(first, done + k - 1),
                       offsetInPhrase |-> k - 1]]]

\* PhraseSplitterQueryEnv(queryEnv, fieldId)
Construct ==
    /\ pc = "new"
    /\ LET max == ScanMaxHandle(queryEnv, queryEnv_getNumTerms)
           skip == HandleAdd(max, 1)
           scan == ScanTerms(queryEnv, queryEnv_getNumTerms, fieldId)
           fin == AssignHandles(scan, Len(scan.phraseTerms), skip)
       IN  /\ _maxHandle' = max
           /\ _skipHandles' = skip
           /\ _termIdxMap' = scan.termIdxMap
           /\ _terms' = fin.terms
           /\ _copyInfo' = fin.copyInfo
    /\ pc' = "constructed"
    /\ lastCall' = [op |-> "construct"]
    /\ UNCHANGED <<queryEnv, fieldId, matchData>>

-----------------------------------------------------------------------------
(* The facade (phrase_splitter_query_env.h).                               *)

\* a getNumTerms that counts the splitted terms instead of the slots
getNumTerms_terms == Len(_terms)

getNumTerms == Len(_termIdxMap)

\* &_terms[i]: outside the vector the address is whatever the build makes it
splitTermAt(i) ==
    IF i < Len(_terms) THEN TermPtr("_terms", i, _terms[i + 1]) ELSE Dangling

\* a getTerm whose range check is off by one
getTerm_lastSlotLost(idx) ==
    IF idx + 1 >= Len(_termIdxMap) THEN Nullptr
    ELSE LET ti == _termIdxMap[idx + 1]
         IN  IF ti.splitted THEN splitTermAt(ti.idx) ELSE queryEnv_getTerm(ti.idx)

\* a getTerm that asks the wrapped environment for the public index
getTerm_publicIdx(idx) ==
    IF idx >= Len(_termIdxMap) THEN Nullptr
    ELSE LET ti == _termIdxMap[idx + 1]
         IN  IF ti.splitted THEN splitTermAt(ti.idx) ELSE queryEnv_getTerm(idx)

\* a getTerm with the two branches of the conditional exchanged
getTerm_swapped(idx) ==
    IF idx >= Len(_termIdxMap) THEN Nullptr
    ELSE LET ti == _termIdxMap[idx + 1]
         IN  IF ti.splitted THEN queryEnv_getTerm(ti.idx) ELSE splitTermAt(ti.idx)

getTerm(idx) ==
    IF idx >= Len(_termIdxMap) THEN Nullptr
    ELSE LET ti == _termIdxMap[idx + 1]
         IN  IF ti.splitted THEN splitTermAt(ti.idx) ELSE queryEnv_getTerm(ti.idx)

\* what a caller can observe of a returned pointer
Outcomes(p) == IF p = Dangling THEN {Dangling, Nullptr} ELSE {p}

GetNumTerms ==
    /\ pc # "new"
    /\ lastCall' = [op |-> "getNumTerms", result |-> getNumTerms]
    /\ UNCHANGED <<queryEnv, fieldId, pc, built, matchData>>

\* a GetTerm that enters a slot for an index it does not find
GetTerm_grow(idx) ==
    /\ pc # "new"
    /\ \E r \in Outcomes(getTerm(idx)) :
          lastCall' = [op |-> "getTerm", idx |-> idx, result |-> r]
    /\ _termIdxMap' = IF idx >= Len(_termIdxMap)
                      THEN Append(_termIdxMap, [idx |-> idx, splitted |-> FALSE])
                      ELSE _termIdxMap
    /\ UNCHANGED <<queryEnv, fieldId, pc, _terms, _copyInfo, _maxHandle,
                   _skipHandles, matchData>>

GetTerm(idx) ==
    /\ pc # "new"
    /\ \E r \in Outcomes(getTerm(idx)) :
          lastCall' = [op |-> "getTerm", idx |-> idx, result |-> r]
    /\ UNCHANGED <<queryEnv, fieldId, pc, built, matchData>>

Accessors ==
    {"getProperties", "getLocation", "getAttributeContext",
     "get_average_field_length", "getIndexEnvironment"}

\* the forwarding accessors: each returns what the wrapped environment returns
Forward(name) ==
    /\ pc # "new"
    /\ name \in Accessors
    /\ lastCall' = [op |-> "forward", result |-> "queryEnv"]
    /\ UNCHANGED <<queryEnv, fieldId, pc, built, matchData>>

-----------------------------------------------------------------------------
(* The bound match data and the per-document update (spec.md 4.3, 6).      *)

\* the handles of the wrapped environment's terms
OrigHandles == {queryEnv[i].handle : i \in 1..Len(queryEnv)}

\* the handles given to the splitted terms
SplitHandles == {_copyInfo[i].split_handle : i \in 1..Len(_copyInfo)}

\* the occurrences of a term that is found n times from position p on, at
\* every other position, in elements 0 and 1 by turns, element 1 weighing 2
OccurrencesFrom(p, n) ==
    [i \in 1..n |->
        [position |-> p + 2 * (i - 1),
         elementId |-> (i - 1) % 2,
         elementWeight |-> 1 + ((i - 1) % 2)]]

\* where a document has a term's first occurrence
FirstPositions == {0, 1}

\* the occurrence lists a document binds
OccurrenceLists ==
    {OccurrencesFrom(p, n) : p \in FirstPositions, n \in 0..MaxOccurrences}

\* TermFieldMatchData: the field and the occurrences of one handle
Entries == [fieldId : {fieldId}, occurrences : OccurrenceLists]

EmptyEntry == [fieldId |-> fieldId, occurrences |-> <<>>]

\* the pipeline binds the match data of the next document: the original
\* terms' entries are those of the document, every other entry keeps what
\* the previously scored document left in it
Bind ==
    /\ pc # "new"
    /\ \E doc \in [OrigHandles -> Entries] :
          matchData' = [h \in OrigHandles \cup SplitHandles |->
                           IF h \in OrigHandles THEN doc[h]
                           ELSE IF h \in DOMAIN matchData THEN matchData[h]
                           ELSE EmptyEntry]
    /\ pc' = "bound"
    /\ lastCall' = [op |-> "bind"]
    /\ UNCHANGED <<queryEnv, fieldId, built>>

\* step 2 of the update: every position moved by offsetInPhrase
Reposition(entry, offset) ==
    [entry EXCEPT !.occurrences =
        [i \in 1..Len(entry.occurrences) |->
            [entry.occurrences[i] EXCEPT !.position = @ + offset]]]

\* steps 1 to 3 of the update for one instruction
CopyOne(md, how) ==
    [md EXCEPT ![how.split_handle] = Reposition(md[how.orig_handle], how.offsetInPhrase)]

RECURSIVE CopyAll(_, _)
\* the update's loop over the first n instructions of _copyInfo
CopyAll(md, n) ==
    IF n = 0 THEN md ELSE CopyOne(CopyAll(md, n - 1), _copyInfo[n])

\* the positions the model lets the update store
PositionLimit == 2 * MaxOccurrences + 2 * MaxPhraseLength

\* every position of the match data is within the model's range
InRange(md) ==
    \A h \in DOMAIN md : \A i \in 1..Len(md[h].occurrences) :
        md[h].occurrences[i].position <= PositionLimit

\* the update operation, run on the bound match data
Update ==
    /\ pc = "bound"
    /\ InRange(CopyAll(matchData, Len(_copyInfo)))
    /\ matchData' = CopyAll(matchData, Len(_copyInfo))
    /\ lastCall' = [op |-> "update",
                    runs |-> IF lastCall.op = "update" THEN 2 ELSE 1]
    /\ UNCHANGED <<queryEnv, fieldId, pc, built>>

-----------------------------------------------------------------------------
(* Specifications.                                                         *)

InitOver(terms) ==
    /\ queryEnv \in EnvsOver(terms)
    /\ fieldId \in Fields
    /\ pc = "new"
    /\ _terms = <<>>
    /\ _copyInfo = <<>>
    /\ _termIdxMap = <<>>
    /\ _maxHandle = Handle(0)
    /\ _skipHandles = Handle(0)
    /\ matchData = <<>>
    /\ lastCall = [op |-> "none"]

InitSplitter == InitOver(TermInputs)

NextSplitter ==
    \/ Construct
    \/ GetNumTerms
    \/ \E idx \in IdxInputs : GetTerm(idx)
    \/ \E name \in Accessors : Forward(name)

SpecSplitter == InitSplitter /\ [][NextSplitter]_vars

Init == InitOver(BoundTermInputs)

Next ==
    \/ Construct
    \/ GetNumTerms
    \/ \E idx \in IdxInputs : GetTerm(idx)
    \/ \E name \in Accessors : Forward(name)
    \/ Bind
    \/ Update

Spec == Init /\ [][Next]_vars

InitServing == InitOver(ServingTermInputs)

SpecServing == InitServing /\ [][Next]_vars

-----------------------------------------------------------------------------
(* What spec.md says of the wrapped environment's terms.                   *)

\* case 1 of 4.1: sub-term count 1, or the target field not referenced
PassThrough(t) == t.phraseLength = 1 \/ fieldId \notin t.fields

PublicSlots(t) == IF PassThrough(t) THEN 1 ELSE t.phraseLength

RECURSIVE SlotsBefore(_)
\* the public slots the first n original terms are to occupy
SlotsBefore(n) ==
    IF n = 0 THEN 0 ELSE SlotsBefore(n - 1) + PublicSlots(queryEnv[n])

PassThroughCount == Cardinality({i \in 1..Len(queryEnv) : PassThrough(queryEnv[i])})

SplitSlotCount == SlotsBefore(Len(queryEnv)) - PassThroughCount

\* the sum max + n of the original maximum and n fits the handle type
Fits(n) == ~HandleAddWraps(ScanMaxHandle(queryEnv, Len(queryEnv)), n)

-----------------------------------------------------------------------------
\* C1: term(idx) returns a present term iff idx < term_count(); past the end
\* it returns the "no term" result and never faults, and below it the map
\* entry it resolves through points at an existing term.
TermPresentIffInRange ==
    lastCall.op = "getTerm" =>
        LET idx == lastCall.idx
        IN  /\ (lastCall.result.kind = "term") <=> (idx < getNumTerms)
            /\ idx >= getNumTerms => lastCall.result = Nullptr
            /\ idx < getNumTerms =>
                  LET ti == _termIdxMap[idx + 1]
                  IN  IF ti.splitted THEN ti.idx < Len(_terms)
                      ELSE ti.idx < queryEnv_getNumTerms

\* C1 witness: a lookup one past the last slot of a map that holds splitted
\* and unsplitted slots has answered "no term"
TermPastEndLookedUp ==
    /\ lastCall.op = "getTerm"
    /\ lastCall.idx = getNumTerms
    /\ lastCall.result = Nullptr
    /\ \E s \in 1..Len(_termIdxMap) : _termIdxMap[s].splitted
    /\ \E s \in 1..Len(_termIdxMap) : ~_termIdxMap[s].splitted

\* C2: term_count() is the number of pass-through terms plus the sum of the
\* sub-term counts of the split phrases, each split phrase of N sub-terms
\* holding N slots in place of its one.
TermCountIsSum ==
    lastCall.op = "getNumTerms" =>
        /\ lastCall.result = SlotsBefore(Len(queryEnv))
        /\ Cardinality({s \in 1..Len(_termIdxMap) : ~_termIdxMap[s].splitted})
              = PassThroughCount
        /\ Cardinality({s \in 1..Len(_termIdxMap) : _termIdxMap[s].splitted})
              = SplitSlotCount

\* C2 witness: the count was asked of an environment with a split phrase of
\* two or more sub-terms and a pass-through term
TermCountAskedOfSplitPhrase ==
    /\ lastCall.op = "getNumTerms"
    /\ lastCall.result >= 3
    /\ PassThroughCount >= 1
    /\ \E i \in 1..Len(queryEnv) :
          ~PassThrough(queryEnv[i]) /\ queryEnv[i].phraseLength >= 2

\* C3 (as stated): no synthesized handle equals an original handle, no two
\* synthesized handles are equal, and every synthesized handle is above the
\* largest original handle.
HandlesUnique ==
    pc # "new" =>
        /\ \A i \in 1..Len(_copyInfo) :
              /\ _copyInfo[i].split_handle \notin OrigHandles
              /\ HandleLess(ScanMaxHandle(queryEnv, Len(queryEnv)),
                            _copyInfo[i].split_handle)
              /\ _terms[i].handle = _copyInfo[i].split_handle
        /\ \A i, j \in 1..Len(_copyInfo) :
              i # j => _copyInfo[i].split_handle # _copyInfo[j].split_handle

\* C3, where the allocation stays within the 32 bits: the same statement
HandlesUniqueWhereFitting == Fits(Len(_copyInfo)) => HandlesUnique

\* C8 (as stated): the j-th synthesized term in creation order holds the
\* handle max_handle + 1 + j.
HandlesSequential ==
    pc # "new" =>
        \A j \in 0..Len(_terms) - 1 :
            /\ Fits(1 + j)
            /\ _terms[j + 1].handle =
                  HandleAdd(ScanMaxHandle(queryEnv, Len(queryEnv)), 1 + j)

\* C8, as the 32-bit type computes it: max_handle + 1 + j modulo 2^32
HandlesSequentialModulo ==
    pc # "new" =>
        \A j \in 0..Len(_terms) - 1 :
            _terms[j + 1].handle =
                HandleAdd(ScanMaxHandle(queryEnv, Len(queryEnv)), 1 + j)

\* C6: a pass-through original term i holds exactly one public slot, whose
\* map entry is {i, not splitted}; term() of that slot is the wrapped
\* environment's term(i) itself, and nothing is synthesized for it.
PassThroughFidelity ==
    pc # "new" =>
        /\ \A i \in 0..Len(queryEnv) - 1 :
              {s \in 1..Len(_termIdxMap) :
                  _termIdxMap[s] = [idx |-> i, splitted |-> FALSE]}
                 = IF PassThrough(queryEnv[i + 1]) THEN {SlotsBefore(i) + 1} ELSE {}
        /\ Len(_terms) = SplitSlotCount
        /\ Len(_copyInfo) = SplitSlotCount
        /\ (lastCall.op = "getTerm" /\ lastCall.idx < Len(_termIdxMap)
              /\ ~_termIdxMap[lastCall.idx + 1].splitted) =>
              LET i == _termIdxMap[lastCall.idx + 1].idx
              IN  /\ i < Len(queryEnv)
                  /\ PassThrough(queryEnv[i + 1])
                  /\ lastCall.result = queryEnv_getTerm(i)
                  /\ lastCall.result.kind = "term"
                  /\ lastCall.result.term = queryEnv[i + 1]

\* C6 witness: a pass-through phrase on another field, standing behind a
\* split phrase, has been looked up through its public slot
PassThroughLookedUp ==
    /\ lastCall.op = "getTerm"
    /\ lastCall.result.kind = "term"
    /\ lastCall.result.owner = "queryEnv"
    /\ lastCall.result.term.phraseLength >= 2
    /\ lastCall.idx > lastCall.result.idx

\* C7: the public slots follow the wrapped environment's order; the N
\* sub-terms of a split phrase hold N consecutive slots, the k-th of them a
\* synthesized term whose one instruction has offsetInPhrase k and the
\* phrase's handle as orig_handle.
SlotsOrdered ==
    pc # "new" =>
        /\ Len(_termIdxMap) = SlotsBefore(Len(queryEnv))
        /\ Len(_copyInfo) = Len(_terms)
        /\ \A i \in 0..Len(queryEnv) - 1 :
              LET t == queryEnv[i + 1]
              IN  IF PassThrough(t)
                  THEN _termIdxMap[SlotsBefore(i) + 1] = [idx |-> i, splitted |-> FALSE]
                  ELSE \A k \in 0..t.phraseLength - 1 :
                          LET ti == _termIdxMap[SlotsBefore(i) + 1 + k]
                          IN  /\ ti.splitted
                              /\ ti.idx < Len(_terms)
                              /\ _copyInfo[ti.idx + 1].offsetInPhrase = k
                              /\ _copyInfo[ti.idx + 1].orig_handle = t.handle
                              /\ _copyInfo[ti.idx + 1].split_handle
                                    = _terms[ti.idx + 1].handle
                              /\ getTerm(SlotsBefore(i) + k)
                                    = TermPtr("_terms", ti.idx, _terms[ti.idx + 1])
        /\ \A a, b \in 1..Len(_termIdxMap) :
              (a # b /\ _termIdxMap[a].splitted /\ _termIdxMap[b].splitted)
                  => _termIdxMap[a].idx # _termIdxMap[b].idx
        /\ (lastCall.op = "getTerm" /\ lastCall.idx < Len(_termIdxMap)
              /\ _termIdxMap[lastCall.idx + 1].splitted) =>
              /\ lastCall.result.kind = "term"
              /\ lastCall.result.owner = "_terms"
              /\ lastCall.result.term.phraseLength = 1

\* C7 witness: the second sub-term of a split phrase that stands behind
\* another original term has been looked up
SecondSubTermLookedUp ==
    /\ lastCall.op = "getTerm"
    /\ lastCall.result.kind = "term"
    /\ lastCall.result.owner = "_terms"
    /\ _copyInfo[lastCall.result.idx + 1].offsetInPhrase = 1
    /\ lastCall.idx >= 2

\* C4 (as stated): after the update, the entry under every instruction's
\* split_handle is the entry now under its orig_handle with offsetInPhrase
\* added to every position, field, element and weight as they are.
PositionsCorrected ==
    lastCall.op = "update" =>
        \A i \in 1..Len(_copyInfo) :
            LET how == _copyInfo[i]
                from == matchData[how.orig_handle]
                to == matchData[how.split_handle]
            IN  /\ to.fieldId = from.fieldId
                /\ Len(to.occurrences) = Len(from.occurrences)
                /\ \A n \in 1..Len(from.occurrences) :
                      /\ to.occurrences[n].position
                            = from.occurrences[n].position + how.offsetInPhrase
                      /\ to.occurrences[n].elementId = from.occurrences[n].elementId
                      /\ to.occurrences[n].elementWeight
                            = from.occurrences[n].elementWeight

\* C4, where the allocation stays within the 32 bits: the same statement
PositionsCorrectedWhereFitting == Fits(Len(_copyInfo)) => PositionsCorrected

\* C5 (as stated): a second update in a row leaves every synthesized
\* handle's entry as the first left it.
UpdateIdempotent ==
    [][(lastCall.op = "update" /\ lastCall'.op = "update") =>
          \A h \in SplitHandles : matchData'[h] = matchData[h]]_vars

\* C5, where the allocation stays within the 32 bits: the same statement
UpdateIdempotentWhereFitting ==
    [][(Fits(Len(_copyInfo)) /\ lastCall.op = "update" /\ lastCall'.op = "update") =>
          \A h \in SplitHandles : matchData'[h] = matchData[h]]_vars

\* C10 (as stated): an update leaves the entry under every original term
\* handle as it was.
UpdateKeepsOriginals ==
    [][lastCall'.op = "update" =>
          \A h \in OrigHandles : matchData'[h] = matchData[h]]_vars

\* C10, where the allocation stays within the 32 bits: the same statement
UpdateKeepsOriginalsWhereFitting ==
    [][(Fits(Len(_copyInfo)) /\ lastCall'.op = "update") =>
          \A h \in OrigHandles : matchData'[h] = matchData[h]]_vars

\* C9: once constructed, no call changes the renumbering table, the splitted
\* terms, the copy instructions or the wrapped environment, so term_count()
\* and term(idx) answer the same throughout.
ImmutableAfterConstruction ==
    [][pc # "new" =>
          /\ built' = built
          /\ queryEnv' = queryEnv
          /\ fieldId' = fieldId
          /\ getNumTerms' = getNumTerms
          /\ \A idx \in IdxInputs : getTerm(idx)' = getTerm(idx)]_vars

\* C9 witness: a term is looked up after an update has filled the entry of
\* a second sub-term from a document in which the phrase occurs
LookedUpAfterUpdate ==
    /\ pc = "bound"
    /\ lastCall.op = "getTerm"
    /\ lastCall.result.kind = "term"
    /\ \E i \in 1..Len(_copyInfo) :
          /\ _copyInfo[i].offsetInPhrase = 1
          /\ _copyInfo[i].split_handle \notin OrigHandles
          /\ matchData[_copyInfo[i].split_handle].occurrences # <<>>

====
